---- MODULE Spec2Model ----
(***************************************************************************)
(* The snake game of src/src/main.rs as a state machine.                   *)
(*                                                                         *)
(* One frame of the Bevy app runs the systems of the Update schedule:      *)
(*   snake_direction < snake_movement < snake_eating < snake_growing,      *)
(*   snake_eating < game_over, snake_movement < game_over,                 *)
(* and spawn_food with no ordering constraint.  snake_eating holds         *)
(* Commands, so the schedule applies the deferred commands between         *)
(* snake_eating and its successors; the remaining commands are applied     *)
(* when the schedule ends.  snake_growing and game_over are not ordered    *)
(* with respect to each other.  Entities spawned through Commands get      *)
(* their id at once and their components when the commands are applied.    *)
(***************************************************************************)
EXTENDS Integers, Sequences, FiniteSets, TLC

\* ------------------------------------------------------------- constants
ARENA_WIDTH == 20
ARENA_HEIGHT == 20

\* ---------------------------------------------------------------- bounds
\* Movement ticks explored per round once food exists or the snake has
\* grown; the food timer fires only in the first MaxTicks ticks of a round.
MaxTicks == 3
\* Segments + stray segments + foods + pending growth stay within MaxLen.
MaxLen == 4
\* random::<f32>() is explored at the values n / RandDenom, for the position
\* given to a new food: n in RandMin..RandMax and n = RandDenom - 1.
RandDenom == 20
RandMin == 3
RandMax == 4
\* The runs of spawn_food's rejection loop start from the snakes with the head
\* on (x, y), x in 0..LoopSpan, y in 1..LoopSpan + 1, and the body below it.
LoopSpan == 1
\* Calls of gen_pos counted in one run of the loop (the count stops there).
MaxDraws == 2

VARIABLES
    world,      \* entity id -> [kind, pos, dir]: the entities that have components
    segments,   \* the SnakeSegments resource: a sequence of entity ids
    cmds,       \* deferred Commands not yet applied
    growth,     \* unread GrowthEvents: [old, new] (the two event buffers)
    gameover,   \* unread GameOverEvents: [old, new]
    pc,         \* position in the frame
    done,       \* unordered systems that have run this frame: subset of {"G","O","F"}
    input,      \* next_dir computed by snake_direction, until the next system runs
    snap,       \* segment_positions of this frame's snake_movement (<<>>: did not run)
    died,       \* this frame's snake_movement sent GameOverEvent
    ate,        \* foods despawned by this frame's snake_eating
    justReset,  \* this frame's game_over rebuilt the snake
    lastDir,    \* direction used by the round's previous movement tick
    ticks,      \* movement ticks of this round, capped at MaxTicks
    loop,       \* position in spawn_food when its loop is run step by step
    next_pos,   \* the local next_pos of spawn_food (<<>>: not in scope)
    draws       \* calls of gen_pos in this run of spawn_food, capped at MaxDraws

vars == <<world, segments, cmds, growth, gameover, pc, done, input, snap,
          died, ate, justReset, lastDir, ticks, loop, next_pos, draws>>

loopVars == <<loop, next_pos, draws>>

Dirs == {"Up", "Down", "Left", "Right"}
Keys == {"ArrowLeft", "ArrowRight", "ArrowUp", "ArrowDown"}

\* ------------------------------------------------------- pure functions

\* Direction::opposite
Opposite(d) ==
    CASE d = "Up" -> "Down"
      [] d = "Down" -> "Up"
      [] d = "Right" -> "Left"
      [] d = "Left" -> "Right"

\* next_dir of snake_direction: the if/else chain over the pressed keys
NextDir(pressed, cur) ==
    IF "ArrowLeft" \in pressed THEN "Left"
    ELSE IF "ArrowRight" \in pressed THEN "Right"
    ELSE IF "ArrowUp" \in pressed THEN "Up"
    ELSE IF "ArrowDown" \in pressed THEN "Down"
    ELSE cur

\* mutant: the guard left out
Unguarded(next, cur) == next

\* the guard of snake_direction: the direction the head has afterwards
GuardedDir(next, cur) == IF next # Opposite(cur) THEN next ELSE cur

\* the match on snake_head.direction in snake_movement
Step(p, d) ==
    CASE d = "Right" -> <<p[1] + 1, p[2]>>
      [] d = "Left" -> <<p[1] - 1, p[2]>>
      [] d = "Up" -> <<p[1], p[2] + 1>>
      [] d = "Down" -> <<p[1], p[2] - 1>>

\* mutant: the test against the left wall is missing
OutOfBoundsNoLeft(p) ==
    \/ p[2] < 0
    \/ p[2] > ARENA_HEIGHT
    \/ p[1] > ARENA_WIDTH

\* the four comparisons of the game-over test
OutOfBounds(p) ==
    \/ p[1] < 0
    \/ p[2] < 0
    \/ p[2] > ARENA_HEIGHT
    \/ p[1] > ARENA_WIDTH

\* segment_positions.contains(&head_position)
Contains(s, p) == \E i \in 1..Len(s) : s[i] = p

\* mutant: the collision test made against the positions after the body shift
DiesAfterShift(newHead, before) ==
    OutOfBounds(newHead) \/ \E i \in 1..(Len(before) - 1) : before[i] = newHead

\* the whole game-over test of snake_movement
Dies(newHead, before) == OutOfBounds(newHead) \/ Contains(before, newHead)

\* mutant: each child reads the updated position of its predecessor
ShiftedInPlace(before, newHead) == [i \in 1..Len(before) |-> newHead]

\* mutant: the children keep their positions
ShiftedStay(before, newHead) ==
    [i \in 1..Len(before) |-> IF i = 1 THEN newHead ELSE before[i]]

\* positions after the tick: the head's new position, then for each child the
\* snapshot position of its predecessor (zip of the snapshot with skip(1))
Shifted(before, newHead) ==
    [i \in 1..Len(before) |-> IF i = 1 THEN newHead ELSE before[i - 1]]

\* mutant: coordinates counted from 1
GenCoordOneBased(n, dim) == ((n * dim) \div RandDenom) + 1

\* (random::<f32>() * dim as f32) as i32 at random = n / RandDenom
GenCoord(n, dim) == (n * dim) \div RandDenom

\* the pairs <<nx, ny>> explored for the two draws of the food's Position:
\* the first window value with each window value, and the largest values
FoodSamples ==
    {s \in ({RandMin} \X (RandMin..RandMax)) \cup {<<RandDenom - 1, RandDenom - 1>>} :
        s[1] < RandDenom /\ s[2] < RandDenom}

\* the Position inserted into the food entity
FoodPos(nx, ny) == <<GenCoord(nx, ARENA_WIDTH), GenCoord(ny, ARENA_HEIGHT)>>

\* spawn_snake: the two fixed entities
StartHead == [kind |-> "head", pos |-> <<3, 3>>, dir |-> "Up"]
StartBody == [kind |-> "segment", pos |-> <<3, 2>>, dir |-> "None"]

\* spawn_snake_segment
NewSegment(p) == [kind |-> "segment", pos |-> p, dir |-> "None"]

\* mutant: first() in place of last()
GrowPosFirst(w, segs) == w[segs[1]].pos

\* the position snake_growing gives to the new segment
GrowPos(w, segs) == w[segs[Len(segs)]].pos

NewFood(p) == [kind |-> "food", pos |-> p, dir |-> "None"]

\* -------------------------------------------------- entities and commands

Alive == DOMAIN world

\* ids that are taken: live entities and entities reserved by pending spawns
Reserved(w, cs) == DOMAIN w \cup {cs[i].ent : i \in {j \in 1..Len(cs) : cs[j].op = "spawn"}}

\* Entities::reserve_entity
NewId(used) ==
    CHOOSE n \in 1..(Cardinality(used) + 1) :
        n \notin used /\ \A m \in 1..(n - 1) : m \in used

SpawnCmd(e, c) == [op |-> "spawn", ent |-> e, comp |-> c]
DespawnCmd(e) == [op |-> "despawn", ent |-> e, comp |-> NewSegment(<<0, 0>>)]

ApplyCmd(w, c) ==
    IF c.op = "spawn"
    THEN [e \in DOMAIN w \cup {c.ent} |-> IF e = c.ent THEN c.comp ELSE w[e]]
    ELSE [e \in DOMAIN w \ {c.ent} |-> w[e]]

RECURSIVE ApplyCmds(_, _)
ApplyCmds(w, cs) ==
    IF cs = <<>> THEN w ELSE ApplyCmds(ApplyCmd(w, Head(cs)), Tail(cs))

RECURSIVE SetToSeq(_)
SetToSeq(S) ==
    IF S = {} THEN <<>>
    ELSE LET m == CHOOSE x \in S : \A y \in S : x <= y
         IN <<m>> \o SetToSeq(S \ {m})

DespawnAll(S) == LET s == SetToSeq(S) IN [i \in 1..Len(s) |-> DespawnCmd(s[i])]

\* Entity ids are opaque handles: the program only compares them for equality.
\* When the commands are applied the live entities are renamed to 1..n, the
\* listed segments first (in list order), then the others by kind and position.
Rank(w, e) ==
    ((((IF w[e].kind = "food" THEN 2 ELSE 1) * 32 + w[e].pos[1] + 1) * 32)
        + w[e].pos[2] + 1) * 64 + e

RankedOrder(w, S) ==
    LET keys == SetToSeq({Rank(w, e) : e \in S})
    IN [i \in 1..Len(keys) |-> CHOOSE e \in S : Rank(w, e) = keys[i]]

CanonOrder(w, segs) ==
    segs \o RankedOrder(w, DOMAIN w \ {segs[i] : i \in 1..Len(segs)})

Renamable(w, segs) ==
    /\ \A i \in 1..Len(segs) : segs[i] \in DOMAIN w
    /\ \A i, j \in 1..Len(segs) : segs[i] = segs[j] => i = j

CanonWorld(w, segs) ==
    IF Renamable(w, segs)
    THEN LET o == CanonOrder(w, segs) IN [n \in 1..Len(o) |-> w[o[n]]]
    ELSE w

CanonSegments(w, segs) ==
    IF Renamable(w, segs) THEN [i \in 1..Len(segs) |-> i] ELSE segs

Heads == {e \in Alive : world[e].kind = "head"}
Foods == {e \in Alive : world[e].kind = "food"}
\* Query<&Position, Without<Food>>
NonFoodPositions == {world[e].pos : e \in Alive \ Foods}

PendingFoods == {i \in 1..Len(cmds) : cmds[i].op = "spawn" /\ cmds[i].comp.kind = "food"}

Unread(ev) == ev.old + ev.new
\* EventReader::read().next(): the oldest unread event
ReadOne(ev) == IF ev.old > 0 THEN [ev EXCEPT !.old = @ - 1] ELSE [ev EXCEPT !.new = @ - 1]
Send(ev, n) == [ev EXCEPT !.new = @ + n]
\* Events::update: the older buffer is dropped
Update(ev) == [old |-> ev.new, new |-> 0]

\* ------------------------------------------------------------------ Init
\* The state after the Startup schedule: spawn_snake has run and its
\* commands are applied.
Init ==
    /\ world = (1 :> StartHead) @@ (2 :> StartBody)
    /\ segments = <<1, 2>>
    /\ cmds = <<>>
    /\ growth = [old |-> 0, new |-> 0]
    /\ gameover = [old |-> 0, new |-> 0]
    /\ pc = "end"
    /\ done = {}
    /\ input = "None"
    /\ snap = <<>>
    /\ died = FALSE
    /\ ate = 0
    /\ justReset = FALSE
    /\ lastDir = "None"
    /\ ticks = 0
    /\ loop = "idle"
    /\ next_pos = <<>>
    /\ draws = 0

\* ------------------------------------------------------ bounds as guards

\* entities with a Position that are neither food nor in the segment list nor
\* about to be despawned
Orphans ==
    {e \in Alive \ Foods :
        /\ \A i \in 1..Len(segments) : segments[i] # e
        /\ \A i \in 1..Len(cmds) : ~(cmds[i].op = "despawn" /\ cmds[i].ent = e)}

Mass ==
    Len(segments) + Cardinality(Orphans) + Cardinality(Foods)
        + Cardinality(PendingFoods) + Unread(growth)

\* The movement timer: unbounded while the round is a bare two-segment snake
\* with no food, at most MaxTicks ticks per round otherwise.
TickAllowed == ticks < MaxTicks \/ Mass = 2

\* The food timer.
FoodAllowed == ticks < MaxTicks /\ Mass < MaxLen

\* ---------------------------------------------------------------- frame

\* The First schedule: the event buffers are rotated (or not yet, when the
\* update waits for the fixed time step), and the frame's systems start.
BeginFrame ==
    /\ UNCHANGED loopVars
    /\ pc = "end"
    /\ \E upd \in BOOLEAN :
          /\ growth' = IF upd THEN Update(growth) ELSE growth
          /\ gameover' = IF upd THEN Update(gameover) ELSE gameover
    /\ pc' = "dir"
    /\ done' = {}
    /\ snap' = <<>>
    /\ died' = FALSE
    /\ ate' = 0
    /\ justReset' = FALSE
    /\ UNCHANGED <<world, segments, cmds, input, lastDir, ticks>>

\* snake_direction, with the keys held down this frame
SnakeDirection ==
    /\ UNCHANGED loopVars
    /\ pc = "dir"
    /\ \E pressed \in SUBSET Keys :
          /\ world' = [e \in Alive |->
                IF e \in Heads
                THEN [world[e] EXCEPT !.dir = GuardedDir(NextDir(pressed, @), @)]
                ELSE world[e]]
          /\ input' = IF Heads = {} THEN "None"
                      ELSE NextDir(pressed, world[CHOOSE e \in Heads : TRUE].dir)
    /\ pc' = "move"
    /\ UNCHANGED <<segments, cmds, growth, gameover, done, snap, died, ate,
                   justReset, lastDir, ticks>>

\* snake_movement when its timer has not fired
SkipMovement ==
    /\ UNCHANGED loopVars
    /\ pc = "move"
    /\ pc' = "eat"
    /\ input' = "None"
    /\ UNCHANGED <<world, segments, cmds, growth, gameover, done, snap, died,
                   ate, justReset, lastDir, ticks>>

\* snake_movement when its timer has fired
SnakeMovement ==
    /\ UNCHANGED loopVars
    /\ pc = "move"
    /\ TickAllowed
    /\ Heads # {}
    /\ input' = "None"
    /\ IF \E i \in 1..Len(segments) : segments[i] \notin Alive
       THEN \* positions.get(*e).unwrap() fails
            /\ pc' = "panic"
            /\ UNCHANGED <<world, segments, cmds, growth, gameover, done, snap,
                           died, ate, justReset, lastDir, ticks>>
       ELSE LET h == CHOOSE e \in Heads : TRUE
                before == [i \in 1..Len(segments) |-> world[segments[i]].pos]
                newHead == Step(world[h].pos, world[h].dir)
                after == Shifted(before, newHead)
                moved == [e \in Alive |->
                            IF e = h THEN [world[e] EXCEPT !.pos = newHead] ELSE world[e]]
                children == 2..Len(segments)
            IN /\ snap' = before
               /\ died' = Dies(newHead, before)
               /\ gameover' = IF Dies(newHead, before) THEN Send(gameover, 1) ELSE gameover
               /\ world' = [e \in Alive |->
                     IF \E i \in children : segments[i] = e
                     THEN [moved[e] EXCEPT !.pos =
                             after[CHOOSE i \in children :
                                     segments[i] = e /\ \A j \in children : segments[j] = e => j <= i]]
                     ELSE moved[e]]
               /\ lastDir' = world[h].dir
               /\ ticks' = IF ticks < MaxTicks THEN ticks + 1 ELSE ticks
               /\ pc' = "eat"
               /\ UNCHANGED <<segments, cmds, growth, done, ate, justReset>>

\* mutant: the position comparison left out
EatenAll(w) == {f \in DOMAIN w : w[f].kind = "food"}

\* the foods snake_eating despawns: those on the head's cell
Eaten(w) ==
    LET hs == {e \in DOMAIN w : w[e].kind = "head"}
    IN IF hs = {} THEN {}
       ELSE {f \in DOMAIN w : w[f].kind = "food" /\ w[f].pos = w[CHOOSE e \in hs : TRUE].pos}

\* snake_eating
SnakeEating ==
    /\ UNCHANGED loopVars
    /\ pc = "eat"
    /\ cmds' = cmds \o DespawnAll(Eaten(world))
    /\ growth' = Send(growth, Cardinality(Eaten(world)))
    /\ ate' = Cardinality(Eaten(world))
    /\ pc' = "sync"
    /\ UNCHANGED <<world, segments, gameover, done, input, snap, died, justReset,
                   lastDir, ticks>>

\* the deferred commands applied after snake_eating
ApplyDeferred ==
    /\ UNCHANGED loopVars
    /\ pc = "sync"
    /\ world' = CanonWorld(ApplyCmds(world, cmds), segments)
    /\ segments' = CanonSegments(ApplyCmds(world, cmds), segments)
    /\ cmds' = <<>>
    /\ pc' = "post"
    /\ UNCHANGED <<growth, gameover, done, input, snap, died, ate,
                   justReset, lastDir, ticks>>

\* snake_growing
SnakeGrowing ==
    /\ UNCHANGED loopVars
    /\ pc = "post"
    /\ "G" \notin done
    /\ IF Unread(growth) = 0
       THEN /\ done' = done \cup {"G"}
            /\ UNCHANGED <<world, segments, cmds, growth, gameover, pc, input, snap,
                           died, ate, justReset, lastDir, ticks>>
       ELSE IF \/ segments = <<>>
               \/ segments[Len(segments)] \notin Alive
               \/ world[segments[Len(segments)]].kind # "segment"
       THEN \* the unwrap of last() or of find() fails
            /\ pc' = "panic"
            /\ growth' = ReadOne(growth)
            /\ UNCHANGED <<world, segments, cmds, gameover, done, input, snap, died,
                           ate, justReset, lastDir, ticks>>
       ELSE LET id == NewId(Reserved(world, cmds))
            IN /\ growth' = ReadOne(growth)
               /\ cmds' = Append(cmds, SpawnCmd(id, NewSegment(GrowPos(world, segments))))
               /\ segments' = Append(segments, id)
               /\ done' = done \cup {"G"}
               /\ UNCHANGED <<world, gameover, pc, input, snap, died, ate,
                              justReset, lastDir, ticks>>

\* mutant: the list is not emptied and spawn_snake pushes onto it
RebuiltAppend(old, h, b) == old \o <<h, b>>

\* the segment list game_over leaves: emptied, then set by spawn_snake
Rebuilt(old, h, b) == <<h, b>>

\* game_over
GameOver ==
    /\ UNCHANGED loopVars
    /\ pc = "post"
    /\ "O" \notin done
    /\ done' = done \cup {"O"}
    /\ IF Unread(gameover) = 0
       THEN UNCHANGED <<world, segments, cmds, growth, gameover, pc, input, snap,
                        died, ate, justReset, lastDir, ticks>>
       ELSE LET kill == DespawnAll(Alive)
                h == NewId(Reserved(world, cmds))
                b == NewId(Reserved(world, cmds) \cup {h})
            IN /\ gameover' = ReadOne(gameover)
               /\ cmds' = cmds \o kill \o <<SpawnCmd(h, StartHead), SpawnCmd(b, StartBody)>>
               /\ segments' = Rebuilt(segments, h, b)
               /\ justReset' = TRUE
               /\ lastDir' = "None"
               /\ ticks' = 0
               /\ UNCHANGED <<world, growth, pc, input, snap, died, ate>>

\* mutant: the live foods are despawned before the new one is spawned
WithFoodReplacing(cs, id, p) == cs \o DespawnAll(Foods) \o <<SpawnCmd(id, NewFood(p))>>

\* the commands of spawn_food: one food entity is spawned
WithFood(cs, id, p) == Append(cs, SpawnCmd(id, NewFood(p)))

\* gen_pos can draw a cell that is not in positions_vec
LoopCanEnd ==
    ~ \A x \in 0..(ARENA_WIDTH - 1), y \in 0..(ARENA_HEIGHT - 1) : <<x, y>> \in NonFoodPositions

\* spawn_food when its timer has fired; it is not ordered against the other
\* systems.  The rejection loop ends when it draws a cell outside positions_vec.
SpawnFood ==
    /\ UNCHANGED loopVars
    /\ pc \in {"dir", "move", "eat", "sync", "post"}
    /\ "F" \notin done
    /\ FoodAllowed
    /\ LoopCanEnd
    /\ \E s \in FoodSamples :
          cmds' = WithFood(cmds, NewId(Reserved(world, cmds)), FoodPos(s[1], s[2]))
    /\ done' = done \cup {"F"}
    /\ UNCHANGED <<world, segments, growth, gameover, pc, input, snap, died, ate,
                   justReset, lastDir, ticks>>

\* the end of the Update schedule: the remaining commands are applied
EndFrame ==
    /\ UNCHANGED loopVars
    /\ pc = "post"
    /\ {"G", "O"} \subseteq done
    /\ world' = CanonWorld(ApplyCmds(world, cmds), segments)
    /\ segments' = CanonSegments(ApplyCmds(world, cmds), segments)
    /\ cmds' = <<>>
    /\ pc' = "end"
    /\ UNCHANGED <<growth, gameover, done, input, snap, died, ate,
                   justReset, lastDir, ticks>>

Next ==
    \/ BeginFrame
    \/ SnakeDirection
    \/ SkipMovement
    \/ SnakeMovement
    \/ SnakeEating
    \/ ApplyDeferred
    \/ SnakeGrowing
    \/ GameOver
    \/ SpawnFood
    \/ EndFrame

Spec == Init /\ [][Next]_vars

\* ------------------------------------------- spawn_food, step by step

\* mutant: the cast to i32 made before the multiplication
GenPosCastFirst(nx, ny) ==
    <<(nx \div RandDenom) * ARENA_WIDTH, (ny \div RandDenom) * ARENA_HEIGHT>>

\* gen_pos at random::<f32>() = nx / RandDenom and ny / RandDenom
GenPos(nx, ny) == <<GenCoord(nx, ARENA_WIDTH), GenCoord(ny, ARENA_HEIGHT)>>

\* all values of random::<f32>() in steps of 1 / RandDenom
AllSamples == 0..(RandDenom - 1)

\* spawn_food is entered with a two-segment snake in the corner region
InitFood ==
    /\ \E hx \in 0..LoopSpan, hy \in 1..(LoopSpan + 1) :
          world = (1 :> [kind |-> "head", pos |-> <<hx, hy>>, dir |-> "Up"])
                  @@ (2 :> NewSegment(<<hx, hy - 1>>))
    /\ segments = <<1, 2>>
    /\ cmds = <<>>
    /\ growth = [old |-> 0, new |-> 0]
    /\ gameover = [old |-> 0, new |-> 0]
    /\ pc = "post"
    /\ done = {}
    /\ input = "None"
    /\ snap = <<>>
    /\ died = FALSE
    /\ ate = 0
    /\ justReset = FALSE
    /\ lastDir = "Up"
    /\ ticks = 0
    /\ loop = "gen"
    /\ next_pos = <<>>
    /\ draws = 0

\* next_pos = gen_pos(), before the loop and in its body
FoodGen ==
    /\ loop = "gen"
    /\ \E nx \in AllSamples, ny \in AllSamples : next_pos' = GenPos(nx, ny)
    /\ draws' = IF draws < MaxDraws THEN draws + 1 ELSE draws
    /\ loop' = "while"
    /\ UNCHANGED <<world, segments, cmds, growth, gameover, pc, done, input, snap,
                   died, ate, justReset, lastDir, ticks>>

\* while positions_vec.contains(&&next_pos): the loop body is entered
FoodRetry ==
    /\ loop = "while"
    /\ next_pos \in NonFoodPositions
    /\ loop' = "gen"
    /\ UNCHANGED <<world, segments, cmds, growth, gameover, pc, done, input, snap,
                   died, ate, justReset, lastDir, ticks, next_pos, draws>>

\* the loop is left and the food is spawned
FoodSpawn ==
    /\ loop = "while"
    /\ next_pos \notin NonFoodPositions
    /\ \E s \in FoodSamples :
          cmds' = WithFood(cmds, NewId(Reserved(world, cmds)), FoodPos(s[1], s[2]))
    /\ done' = done \cup {"F"}
    /\ loop' = "fed"
    /\ next_pos' = <<>>
    /\ UNCHANGED <<world, segments, growth, gameover, pc, input, snap, died, ate,
                   justReset, lastDir, ticks, draws>>

NextFood ==
    \/ FoodGen
    \/ FoodRetry
    \/ FoodSpawn

\* a draw that lands outside positions_vec
FreeDraw == FoodGen /\ next_pos' \notin NonFoodPositions

\* The system keeps running once it is called, and the sampling is fair: if
\* gen_pos is called again and again, it draws a cell outside positions_vec
\* at some call, provided it can draw one.
SpecFood ==
    InitFood /\ [][NextFood]_vars /\ WF_vars(NextFood) /\ SF_vars(FreeDraw)

\* ============================================================== claims

\* steps of the frame, recognised in a pair of states
FoodStep == "F" \notin done /\ "F" \in done'
DirectionStep == pc = "dir" /\ pc' = "move"
MoveStep == snap = <<>> /\ snap' # <<>>
EatStep == pc = "eat" /\ pc' = "sync"
GrowStep == "G" \notin done /\ "G" \in done' /\ Unread(growth) > 0
EndStep == pc = "post" /\ pc' = "end"

HeadPos == world[segments[1]].pos
HeadDir == world[segments[1]].dir
SegmentPositions == {world[segments[i]].pos : i \in {j \in 1..Len(segments) : segments[j] \in Alive}}
NewFoodPos == cmds[Len(cmds)].comp.pos
NewTailPos == cmds[Len(cmds)].comp.pos

\* C1: every call of spawn_food gives its food a position that no snake
\* segment (head or body) holds at the time of the call.
C1_FoodAvoidsSnake ==
    [][FoodStep => NewFoodPos' \notin SegmentPositions]_vars

\* C2: within a round, the direction used by a movement tick is never the
\* opposite of the direction used by the previous tick, whatever direction
\* updates ran in between; so the head never moves in one tick onto the cell
\* of its first body segment.
C2_NoReversal ==
    [][(MoveStep /\ lastDir # "None") =>
          /\ <<lastDir, lastDir'>> \notin
                {<<"Up", "Down">>, <<"Down", "Up">>, <<"Left", "Right">>, <<"Right", "Left">>}
          /\ HeadPos' # snap'[2]]_vars

\* C3: once a game-over reset is fully applied (game_over has rebuilt the
\* snake and the frame's commands are applied) the segment list has exactly
\* 2 segments, the head at (3,3) facing Up and the body at (3,2).
C3_ResetCanonical ==
    (pc = "end" /\ justReset) =>
        /\ Len(segments) = 2
        /\ segments[1] \in Alive /\ segments[2] \in Alive /\ segments[1] # segments[2]
        /\ world[segments[1]] = [kind |-> "head", pos |-> <<3, 3>>, dir |-> "Up"]
        /\ world[segments[2]] = [kind |-> "segment", pos |-> <<3, 2>>, dir |-> "None"]

\* C3 witness: a reset is fully applied in a frame whose tick started with a
\* snake of 3 or more segments whose head was not on the starting cell.
C3_Witness ==
    /\ pc = "end" /\ justReset
    /\ Len(snap) >= 3 /\ snap[1] # <<3, 3>>
    /\ Len(segments) = 2

\* C4 as stated: when a tick has moved the head onto food and snake_growing
\* applies the growth, the new tail is at the position the old tail held
\* before the tick's movement, and the list is longer by exactly 1.
C4_GrowthAtVacatedCell ==
    [][(GrowStep /\ snap # <<>> /\ ate > 0 /\ pc' # "panic") =>
          /\ Len(segments') = Len(segments) + 1
          /\ NewTailPos' = snap[Len(snap)]]_vars

\* C4 amended: when a tick has moved the head onto food and snake_growing
\* applies the growth, the new tail is at the position the old tail holds
\* after the tick's movement (the pre-tick position of the old tail's
\* predecessor), and the list is longer by exactly 1.
C4_GrowthAtTail ==
    [][(GrowStep /\ snap # <<>> /\ ate > 0 /\ pc' # "panic") =>
          /\ Len(segments') = Len(segments) + 1
          /\ Len(cmds') = Len(cmds) + 1
          /\ cmds'[Len(cmds')].op = "spawn"
          /\ cmds'[Len(cmds')].ent = segments'[Len(segments')]
          /\ NewTailPos' = snap[Len(snap) - 1]]_vars

\* C4 witness: growth has been applied in a frame whose tick moved the head
\* onto food; the new tail is pending at the cell of the old tail.
C4_Witness ==
    /\ pc = "post" /\ "G" \in done
    /\ snap # <<>> /\ ate > 0 /\ ~died
    /\ Len(segments) = Len(snap) + 1
    /\ cmds # <<>> /\ NewTailPos = snap[Len(snap) - 1]
    /\ NewTailPos # snap[Len(snap)]

\* C5: with a 20 x 20 arena a tick whose new head position is (21,5), (5,-1),
\* (5,21) or (20,20) emits game-over, and one whose new head position is
\* (19,19), not on any segment, does not.
C5_BoundaryExamples ==
    (pc = "eat" /\ snap # <<>>) =>
        /\ HeadPos \in {<<21, 5>>, <<5, -1>>, <<5, 21>>, <<20, 20>>} => died
        /\ (HeadPos = <<19, 19>> /\ ~Contains(snap, HeadPos)) => ~died

\* C6: in every movement tick, game-over or not, each non-head segment ends
\* at the position its predecessor held before the tick, and the head ends
\* one cell from its old position in its direction.
C6_BodyFollows ==
    [][MoveStep =>
          /\ segments' = segments
          /\ \A i \in 2..Len(segments) :
                world'[segments[i]].pos = world[segments[i - 1]].pos
          /\ LET p == HeadPos
                 q == HeadPos'
                 d == HeadDir
             IN /\ d = "Up" => q = <<p[1], p[2] + 1>>
                /\ d = "Down" => q = <<p[1], p[2] - 1>>
                /\ d = "Right" => q = <<p[1] + 1, p[2]>>
                /\ d = "Left" => q = <<p[1] - 1, p[2]>>]_vars

\* C6 witness: a tick of a snake of 3 or more segments has emitted game-over
\* and the body has still been shifted.
C6_Witness ==
    /\ pc = "eat" /\ died
    /\ Len(snap) >= 3
    /\ \A i \in 2..Len(segments) : world[segments[i]].pos = snap[i - 1]
    /\ snap[1] # snap[2] /\ snap[2] # snap[3]

\* C7 as stated: in every reachable state at most one live food exists.
C7_AtMostOneFood == Cardinality(Foods) <= 1

\* C7 amended: every spawner call spawns exactly one food entity and
\* despawns none, whether or not a food is live, so several foods can be
\* live at once.
C7_SpawnAddsOne ==
    [][FoodStep =>
          /\ world' = world
          /\ Len(cmds') = Len(cmds) + 1
          /\ SubSeq(cmds', 1, Len(cmds)) = cmds
          /\ cmds'[Len(cmds')].op = "spawn"
          /\ cmds'[Len(cmds')].comp.kind = "food"
          /\ cmds'[Len(cmds')].ent \notin Reserved(world, cmds)]_vars

\* C7 witness: two foods are live.
C7_Witness == Cardinality(Foods) >= 2 /\ pc = "end"

C9_OppositeRejected ==
    [][DirectionStep =>
          LET d == HeadDir
              r == input'
          IN /\ r \in Dirs
             /\ IF <<d, r>> \in {<<"Up", "Down">>, <<"Down", "Up">>,
                                 <<"Left", "Right">>, <<"Right", "Left">>}
                THEN HeadDir' = d
                ELSE HeadDir' = r]_vars

\* C9 witness: snake_direction has just run with the opposite of the head's
\* direction requested, and the head still faces the old way.
C9_Witness ==
    /\ pc = "move"
    /\ <<HeadDir, input>> \in {<<"Up", "Down">>, <<"Down", "Up">>,
                               <<"Left", "Right">>, <<"Right", "Left">>}

\* C10: a movement tick emits exactly one game-over signal if the new head
\* position has x < 0, y < 0, x > WIDTH or y > HEIGHT or equals the pre-move
\* position of any segment (the tail's vacated cell included), and none
\* otherwise.
C10_GameOverIff ==
    [][MoveStep =>
          LET q == HeadPos'
              hit == \/ q[1] < 0
                     \/ q[2] < 0
                     \/ q[1] > ARENA_WIDTH
                     \/ q[2] > ARENA_HEIGHT
                     \/ \E i \in 1..Len(segments) : world[segments[i]].pos = q
          IN /\ Unread(gameover') = Unread(gameover) + (IF hit THEN 1 ELSE 0)
             /\ died' = hit]_vars

\* C10 witness: a tick has moved the head onto the cell the tail was leaving
\* and has emitted one game-over signal.
C10_Witness ==
    /\ pc = "eat" /\ died
    /\ HeadPos = snap[Len(snap)]
    /\ Unread(gameover) = 1

\* the list is complete when a movement tick starts: at least 2 entries, all
\* live and distinct, the first one the only head
TickStartsConsistent ==
    pc = "move" =>
        /\ Len(segments) >= 2
        /\ \A i \in 1..Len(segments) : segments[i] \in Alive
        /\ \A i, j \in 1..Len(segments) : segments[i] = segments[j] => i = j
        /\ Heads = {segments[1]}
        /\ \A i \in 2..Len(segments) : world[segments[i]].kind = "segment"

\* C11: whenever a movement tick starts the segment list has at least 2
\* entries, its first entry is the single head and every listed segment is a
\* live entity with a position, so that no lookup of snake_movement or
\* snake_growing fails: the systems never work on a partially rebuilt snake.
C11_NeverTorn == pc # "panic" /\ TickStartsConsistent

\* C12: when one tick raises game-over and growth together, then whichever of
\* snake_growing and game_over runs first no lookup fails and, when the
\* frame's work is complete, the snake is the 2-segment start configuration
\* and no other segment entity survives.
C12_DeathWithGrowth ==
    (snap # <<>> /\ died /\ ate > 0) =>
        /\ pc # "panic"
        /\ pc = "end" =>
              /\ Len(segments) = 2
              /\ Alive \ Foods = {segments[1], segments[2]}
              /\ world[segments[1]] = [kind |-> "head", pos |-> <<3, 3>>, dir |-> "Up"]
              /\ world[segments[2]] = [kind |-> "segment", pos |-> <<3, 2>>, dir |-> "None"]

\* a run of snake_growing, completed or failed
GrowSystemStep == pc = "post" /\ "G" \notin done /\ ("G" \in done' \/ pc' = "panic")

\* C13: snake_growing with a growth signal pending appends exactly one new
\* segment at the end of the list, at the position the tail holds at that
\* moment, and changes no existing segment, nor the head's direction, nor any
\* food; with no signal pending it changes nothing.
C13_GrowthFrame ==
    [][GrowSystemStep =>
          IF Unread(growth) > 0
          THEN /\ pc' # "panic"
               /\ world' = world
               /\ Len(segments') = Len(segments) + 1
               /\ SubSeq(segments', 1, Len(segments)) = segments
               /\ segments'[Len(segments')] \notin Reserved(world, cmds)
               /\ cmds' = Append(cmds,
                     [op |-> "spawn", ent |-> segments'[Len(segments')],
                      comp |-> [kind |-> "segment",
                                pos |-> world[segments[Len(segments)]].pos,
                                dir |-> "None"]])
               /\ Unread(growth') = Unread(growth) - 1
          ELSE /\ world' = world
               /\ segments' = segments
               /\ cmds' = cmds
               /\ growth' = growth]_vars

\* C14: signals are consumed once. A game-over signal is consumed by exactly
\* one reset and a reset happens only by consuming one; a growth signal is
\* consumed by exactly one appended segment and a segment is appended only by
\* consuming one.
C14_SignalsOnce ==
    [][/\ Unread(gameover') < Unread(gameover) =>
             Unread(gameover') = Unread(gameover) - 1 /\ ~justReset /\ justReset'
       /\ (~justReset /\ justReset') => Unread(gameover') = Unread(gameover) - 1
       /\ Unread(growth') < Unread(growth) =>
             Unread(growth') = Unread(growth) - 1 /\ Len(segments') = Len(segments) + 1
       /\ Len(segments') > Len(segments) =>
             Unread(growth') = Unread(growth) - 1 /\ Len(segments') = Len(segments) + 1]_vars

\* the step in which game_over rebuilds the snake
ResetStep == ~justReset /\ justReset'

\* C15: once a reset is applied no food is live: every food that a spawner
\* call made before the reset is destroyed, and food exists again only when a
\* later spawner call creates one.
C15_ResetClearsFood ==
    [][ResetStep =>
          LET w == ApplyCmds(world, cmds')
          IN \A e \in DOMAIN w : w[e].kind # "food"]_vars

\* the positions of all foods, live or in a pending spawn
AllFoodPositions ==
    {world[e].pos : e \in Foods} \cup {cmds[i].comp.pos : i \in PendingFoods}

\* C17: every food, live or about to be spawned, is at a position with
\* 0 <= x < ARENA_WIDTH and 0 <= y < ARENA_HEIGHT, so no food lies on the
\* column x = ARENA_WIDTH or the row y = ARENA_HEIGHT on which a head survives.
C17_FoodInRange ==
    \A p \in AllFoodPositions :
        /\ 0 <= p[1] /\ p[1] < ARENA_WIDTH
        /\ 0 <= p[2] /\ p[2] < ARENA_HEIGHT

\* a food is live on the last cell of the range
C17_Witness ==
    \E e \in Foods : world[e].pos = <<ARENA_WIDTH - 1, ARENA_HEIGHT - 1>>

\* a live head stands on the column x = ARENA_WIDTH or the row
\* y = ARENA_HEIGHT at the end of a frame whose tick raised no game-over
HeadOnEdge ==
    /\ pc = "end" /\ snap # <<>> /\ ~died
    /\ segments[1] \in Alive
    /\ (HeadPos[1] = ARENA_WIDTH \/ HeadPos[2] = ARENA_HEIGHT)

Distance(p, q) ==
    (IF p[1] >= q[1] THEN p[1] - q[1] ELSE q[1] - p[1])
        + (IF p[2] >= q[2] THEN p[2] - q[2] ELSE q[2] - p[2])

\* in the entities w every listed segment is at distance at most 1 from its
\* predecessor in the list
Contiguous(w) ==
    \A i \in 2..Len(segments) :
        (segments[i] \in DOMAIN w /\ segments[i - 1] \in DOMAIN w) =>
            Distance(w[segments[i]].pos, w[segments[i - 1]].pos) <= 1

\* C18: in every reachable state each non-head segment of the list is on the
\* cell of its predecessor or on an orthogonally adjacent cell, both among the
\* live entities and among the entities as the pending commands leave them.
C18_Contiguity == Contiguous(world) /\ Contiguous(ApplyCmds(world, cmds))

\* a snake of 3 or more segments on pairwise distinct cells after a tick
C18_Witness ==
    /\ pc = "end" /\ snap # <<>> /\ ~died
    /\ Len(segments) >= 3
    /\ \A i \in 1..Len(segments) : segments[i] \in Alive
    /\ \A i, j \in 1..Len(segments) :
          world[segments[i]].pos = world[segments[j]].pos => i = j

\* the playable range 0 <= x <= ARENA_WIDTH, 0 <= y <= ARENA_HEIGHT
InRange(p) ==
    /\ 0 <= p[1] /\ p[1] <= ARENA_WIDTH
    /\ 0 <= p[2] /\ p[2] <= ARENA_HEIGHT

\* C19: when a movement tick starts every listed segment is live and inside
\* the playable range; a position outside the range is held only by a head,
\* only between the movement step that raised game-over and the end of that
\* frame, and never by a body segment.
C19_InsideAtTick ==
    /\ pc = "move" =>
          \A i \in 1..Len(segments) :
              segments[i] \in Alive /\ InRange(world[segments[i]].pos)
    /\ \A e \in Alive \ Foods :
          ~InRange(world[e].pos) =>
              /\ world[e].kind = "head"
              /\ snap # <<>> /\ died
              /\ pc \in {"eat", "sync", "post", "panic"}

\* the reset has run and the head that left the range is still live, to be
\* despawned by the pending commands
C19_Witness ==
    /\ pc = "post" /\ justReset
    /\ \E e \in Heads : ~InRange(world[e].pos)
    /\ \A e \in DOMAIN ApplyCmds(world, cmds) : InRange(ApplyCmds(world, cmds)[e].pos)

\* C16: with fair random sampling, a run of spawn_food that finds a cell of
\* the range 0..ARENA_WIDTH-1 x 0..ARENA_HEIGHT-1 outside positions_vec leaves
\* its loop and spawns its food.
C16_SpawnerTerminates ==
    (loop \in {"gen", "while"} /\ LoopCanEnd) ~> (loop = "fed" /\ PendingFoods # {})

\* the food is spawned after a draw was rejected
C16_Witness == loop = "fed" /\ draws >= 2 /\ PendingFoods # {}
====
